---- MODULE Spec2Model ----
(***************************************************************************)
(* Model of assets/2020/04/4k-aliasing/benchmarks.py: rename_columns and   *)
(* the table pipeline of plot (read, rename, offset tagging, error         *)
(* suppression, derived r/w offset, split, noise filter, two pivots,       *)
(* rendering).                                                             *)
(*                                                                         *)
(* Text is modelled as sequences of one-character strings so that          *)
(* lowercasing, replacement and pattern search are computed character by   *)
(* character.  Numeric cells are records [nan, v]; score and error cells   *)
(* hold tenths (v = 5 stands for 0.5), the size columns hold integers.     *)
(***************************************************************************)
EXTENDS Integers, Sequences, FiniteSets, TLC

VARIABLES pc, input, df, filter, thrpt, clean, throughput, aliases, files,
          name, renamed

vars == <<pc, input, df, filter, thrpt, clean, throughput, aliases, files,
          name, renamed>>

----------------------------------------------------------------------------
(* Bounds of the model *)

MaxRows == 2
MaxPieces == 3

----------------------------------------------------------------------------
(* String literals of the source *)

ScoreError == <<"S","c","o","r","e"," ","E","r","r","o","r"," ","(","9","9",".","9","%",")">>
ParamPrefix == <<"p","a","r","a","m",":"," ">>
NoOffset == <<"i","n","t","e","r","s","e","c","t","i","o","n","N","o","O","f","f","s","e","t">>
ConstantOffset == <<"i","n","t","e","r","s","e","c","t","i","o","n","W","i","t","h","C","o","n","s","t","a","n","t","O","f","f","s","e","t">>
ConstantOffset0 == ConstantOffset \o <<"0">>
ConstantOffset256 == ConstantOffset \o <<"2","5","6">>
ConstantOffset512 == ConstantOffset \o <<"5","1","2">>
ConstantOffset768 == ConstantOffset \o <<"7","6","8">>
AliasMarker == <<"l","d","_","b","l","o","c","k","s","_","p","a","r","t","i","a","l",".","a","d","d","r","e","s","s","_","a","l","i","a","s">>
Alias(b) == b \o <<":">> \o AliasMarker

c_error == <<"e","r","r","o","r">>
c_benchmark == <<"b","e","n","c","h","m","a","r","k">>
c_offset == <<"o","f","f","s","e","t">>
c_mode == <<"m","o","d","e">>
c_threads == <<"t","h","r","e","a","d","s">>
c_samples == <<"s","a","m","p","l","e","s">>
c_unit == <<"u","n","i","t">>
c_score == <<"s","c","o","r","e">>
c_sourcesize == <<"s","o","u","r","c","e","s","i","z","e">>
c_targetsize == <<"t","a","r","g","e","t","s","i","z","e">>
c_padding == <<"p","a","d","d","i","n","g">>
c_rw == <<"r","/","w"," ","o","f","f","s","e","t">>

aliases_png == "aliases.png"
throughput_png == "throughput.png"

----------------------------------------------------------------------------
(* Python str operations *)

UpperCase == <<"A","B","C","D","E","F","G","H","I","J","K","L","M","N","O","P","Q","R","S","T","U","V","W","X","Y","Z">>
LowerCase == <<"a","b","c","d","e","f","g","h","i","j","k","l","m","n","o","p","q","r","s","t","u","v","w","x","y","z">>

LowerChar(c) ==
    IF \E k \in DOMAIN UpperCase : UpperCase[k] = c
    THEN LowerCase[CHOOSE k \in DOMAIN UpperCase : UpperCase[k] = c]
    ELSE c

\* str.lower(s)
str_lower(s) == [i \in DOMAIN s |-> LowerChar(s[i])]

\* s.startswith(old) at offset 0
StartsWith(s, old) ==
    /\ Len(s) >= Len(old)
    /\ \A k \in DOMAIN old : s[k] = old[k]

\* s.replace(old, new): every non-overlapping occurrence of old, scanning
\* from the left; the output is not scanned again.
RECURSIVE str_replace(_, _, _)
str_replace(s, old, new) ==
    IF s = <<>> THEN <<>>
    ELSE IF StartsWith(s, old)
         THEN new \o str_replace(SubSeq(s, Len(old) + 1, Len(s)), old, new)
         ELSE <<Head(s)>> \o str_replace(Tail(s), old, new)

\* One character of the pattern against one character of the text: the
\* pattern is a regular expression, in which "." stands for any character
\* but a newline and every other character of the patterns used stands for
\* itself.
RegexCharMatches(p, c) == IF p = "." THEN c # "\n" ELSE p = c

RegexMatchesAt(pat, s, i) ==
    /\ i + Len(pat) - 1 <= Len(s)
    /\ \A k \in DOMAIN pat : RegexCharMatches(pat[k], s[i + k - 1])

\* re.search(pat, s) is not None
RegexSearch(pat, s) == \E i \in 1..(Len(s) + 1) : RegexMatchesAt(pat, s, i)

----------------------------------------------------------------------------
(* rename_columns *)

rename_columns_lower_last(n) ==
    IF n = ScoreError THEN c_error
    ELSE str_lower(str_replace(n, ParamPrefix, <<>>))

rename_columns(n) ==
    IF n = ScoreError THEN c_error
    ELSE str_replace(str_lower(n), ParamPrefix, <<>>)

----------------------------------------------------------------------------
(* Cells, Series and DataFrame operations (pandas) *)

NaN == [nan |-> TRUE, v |-> 0]
Num(n) == [nan |-> FALSE, v |-> n]

\* s[mask]: the elements of s whose mask element is TRUE, in order
RECURSIVE Compress(_, _)
Compress(s, mask) ==
    IF s = <<>> THEN <<>>
    ELSE (IF Head(mask) THEN <<Head(s)>> ELSE <<>>)
         \o Compress(Tail(s), Tail(mask))

HasColumn(d, label) == \E j \in DOMAIN d.columns : d.columns[j] = label
ColumnIndex(d, label) == CHOOSE j \in DOMAIN d.columns : d.columns[j] = label

\* pd.read_csv(input): the header row gives the columns, the index is 0..n-1
read_csv(csv) ==
    [columns |-> csv.header,
     index   |-> [i \in DOMAIN csv.rows |-> i - 1],
     data    |-> csv.rows]

\* d.rename(rename_columns, axis='columns')
rename(d) == [d EXCEPT !.columns = [j \in DOMAIN @ |-> rename_columns(@[j])]]

\* d.drop(columns=labels): a new frame without the labelled columns
drop(d, labels) ==
    LET keep == [j \in DOMAIN d.columns |->
                    \A k \in DOMAIN labels : labels[k] # d.columns[j]]
    IN [d EXCEPT !.columns = Compress(@, keep),
                 !.data = [i \in DOMAIN @ |-> Compress(@[i], keep)]]

\* d[label]: the column as a Series, positionally aligned with d.index
Col(d, label) == [i \in DOMAIN d.data |-> d.data[i][ColumnIndex(d, label)]]

\* d.loc[mask, label] = value: the column is created (all NaN) when absent
loc_set(d, mask, label, value) ==
    LET e == IF HasColumn(d, label) THEN d
             ELSE [d EXCEPT !.columns = Append(@, label),
                            !.data = [i \in DOMAIN @ |-> Append(@[i], NaN)]]
        j == ColumnIndex(e, label)
    IN [e EXCEPT !.data = [i \in DOMAIN @ |->
                              IF mask[i] THEN [@[i] EXCEPT ![j] = value]
                              ELSE @[i]]]

\* d[label] = series
set_item(d, label, series) ==
    LET e == IF HasColumn(d, label) THEN d
             ELSE [d EXCEPT !.columns = Append(@, label),
                            !.data = [i \in DOMAIN @ |-> Append(@[i], NaN)]]
        j == ColumnIndex(e, label)
    IN [e EXCEPT !.data = [i \in DOMAIN @ |-> [@[i] EXCEPT ![j] = series[i]]]]

\* d[mask]: the rows whose mask element is TRUE, keeping their index labels
bool_index(d, mask) ==
    [d EXCEPT !.index = Compress(@, mask), !.data = Compress(@, mask)]

series_startswith(series, lit) == [i \in DOMAIN series |-> StartsWith(series[i], lit)]

\* series == literal
series_eq(series, lit) == [i \in DOMAIN series |-> series[i] = lit]

\* series.str.contains(pat): pat is a regular expression (regex=True)
str_contains(series, pat) == [i \in DOMAIN series |-> RegexSearch(pat, series[i])]

invert_omitted(mask) == mask

\* ~mask
invert(mask) == [i \in DOMAIN mask |-> ~mask[i]]

series_le(series, x) == [i \in DOMAIN series |-> ~series[i].nan /\ series[i].v <= x]

\* series < x: FALSE where the element is NaN
series_lt(series, x) == [i \in DOMAIN series |-> ~series[i].nan /\ series[i].v < x]

\* Arithmetic on cells: NaN in, NaN out
cell_sub(a, b) == IF a.nan \/ b.nan THEN NaN ELSE Num(a.v - b.v)
cell_add(a, b) == IF a.nan \/ b.nan THEN NaN ELSE Num(a.v + b.v)
cell_mul(a, k) == IF a.nan THEN NaN ELSE Num(a.v * k)
cell_plus(a, k) == IF a.nan THEN NaN ELSE Num(a.v + k)

RECURSIVE SumOver(_, _)
SumOver(series, S) ==
    IF S = {} THEN 0
    ELSE LET i == CHOOSE i \in S : TRUE
         IN series[i].v + SumOver(series, S \ {i})

\* pd.pivot_table(data, values=values, index=[index], columns=[columns]):
\* the rows are grouped by (index value, column value), rows whose index
\* value is NaN belonging to no group; each value column is aggregated by the
\* mean of its non-NaN elements (sum / n, NaN when n = 0); a group all of
\* whose aggregates are NaN is dropped.  "rows" records the index labels of
\* the rows aggregated into the group.
pivot_table(data, values, index, columns) ==
    LET idx == Col(data, index)
        col == Col(data, columns)
        valid == {i \in DOMAIN data.data : ~idx[i].nan}
        keys == {<<idx[i].v, col[i]>> : i \in valid}
        members(k) == {i \in valid : idx[i].v = k[1] /\ col[i] = k[2]}
        mean(k, v) ==
            LET s == Col(data, v)
                ok == {i \in members(k) : ~s[i].nan}
            IN [sum |-> SumOver(s, ok), n |-> Cardinality(ok)]
        agged == [k \in keys |-> [v \in values |-> mean(k, v)]]
        kept == {k \in keys : \E v \in values : agged[k][v].n > 0}
    IN [k \in kept |-> [cells |-> agged[k],
                        rows |-> {data.index[i] : i \in members(k)}]]

----------------------------------------------------------------------------
(* Input tables *)

\* The header of the benchmark harness's CSV report
Header ==
    << <<"B","e","n","c","h","m","a","r","k">>,
       <<"M","o","d","e">>,
       <<"T","h","r","e","a","d","s">>,
       <<"S","a","m","p","l","e","s">>,
       <<"S","c","o","r","e">>,
       ScoreError,
       <<"U","n","i","t">>,
       <<"P","a","r","a","m",":"," ","p","a","d","d","i","n","g">>,
       <<"P","a","r","a","m",":"," ","s","o","u","r","c","e","s","i","z","e">>,
       <<"P","a","r","a","m",":"," ","t","a","r","g","e","t","s","i","z","e">> >>

\* The ten benchmark names the offset tagging names
PlainNames ==
    {NoOffset, ConstantOffset0, ConstantOffset256, ConstantOffset512,
     ConstantOffset768}
TaggedNames == PlainNames \cup {Alias(b) : b \in PlainNames}

\* Names outside the ten: a longer name with a tagged name as its prefix, an
\* unknown benchmark with the alias suffix, a tagged alias name in another
\* case, and a name with another character where the marker has its dot.
OtherNames ==
    {ConstantOffset256 \o <<"0">>,
     <<"u","n","i","o","n">> \o <<":">> \o AliasMarker,
     str_lower(Alias(NoOffset)),
     NoOffset \o <<":">> \o [k \in DOMAIN AliasMarker |->
                               IF AliasMarker[k] = "." THEN "_"
                               ELSE AliasMarker[k]]}

BenchmarkNames == TaggedNames \cup OtherNames

\* score error: missing, 0.5, 1.0 (tenths)
Errors == {NaN, Num(5), Num(10)}
\* (sourcesize, padding)
Sizes == {<<Num(100), Num(4)>>, <<Num(356), Num(4)>>, <<NaN, Num(4)>>,
          <<Num(100), NaN>>}
\* (targetsize, score): score missing or 30.0 (tenths)
Measured == {<<Num(8), Num(300)>>, <<Num(16), NaN>>}

Rows ==
    {<<b, <<"t","h","r","p","t">>, Num(1), Num(5), m[2], e,
       <<"o","p","s","/","u","s">>, s[2], s[1], m[1]>> :
        b \in BenchmarkNames, e \in Errors, s \in Sizes, m \in Measured}

\* The rows a table is filled up with: plain and alias measurements of two
\* benchmarks, each with error 0.5 and score 20.0.
ContextRows ==
    {<<b, <<"t","h","r","p","t">>, Num(1), Num(5), Num(200), Num(5),
       <<"o","p","s","/","u","s">>, Num(4), Num(100), Num(8)>> :
        b \in {NoOffset, Alias(NoOffset), ConstantOffset256,
                Alias(ConstantOffset256)}}

\* A table: any row, followed by up to MaxRows - 1 context rows
Tables ==
    [header : {Header},
     rows : {<<r>> \o c : r \in Rows,
                         c \in UNION {[1..n -> ContextRows] : n \in 0..(MaxRows - 1)}}]

\* Column labels built from at most MaxPieces pieces
LabelPieces ==
    {ScoreError, ParamPrefix, <<"P","a","r","a","m",":"," ">>,
     <<"S","i","z","e">>, <<"p">>, <<"a","r","a","m",":"," ">>}

RECURSIVE Concat(_)
Concat(ss) == IF ss = <<>> THEN <<>> ELSE Head(ss) \o Concat(Tail(ss))

Labels ==
    {Concat(ps) : ps \in UNION {[1..n -> LabelPieces] : n \in 0..MaxPieces}}

----------------------------------------------------------------------------
(* plot *)

NoFrame == [columns |-> <<>>, index |-> <<>>, data |-> <<>>]

\* The ten assignments df.loc[df['benchmark'] == literal, 'offset'] = value,
\* in source order
OffsetAssignmentsSlip ==
    << <<NoOffset, 0>>,
       <<ConstantOffset0, 0>>,
       <<ConstantOffset256, 256>>,
       <<ConstantOffset512, 512>>,
       <<ConstantOffset768, 768>>,
       <<Alias(NoOffset), 0>>,
       <<Alias(ConstantOffset0), 0>>,
       <<Alias(ConstantOffset256), 256>>,
       <<Alias(ConstantOffset512), 256>>,
       <<Alias(ConstantOffset768), 768>> >>

OffsetAssignments ==
    << <<NoOffset, 0>>,
       <<ConstantOffset0, 0>>,
       <<ConstantOffset256, 256>>,
       <<ConstantOffset512, 512>>,
       <<ConstantOffset768, 768>>,
       <<Alias(NoOffset), 0>>,
       <<Alias(ConstantOffset0), 0>>,
       <<Alias(ConstantOffset256), 256>>,
       <<Alias(ConstantOffset512), 512>>,
       <<Alias(ConstantOffset768), 768>> >>

RECURSIVE tag_offsets(_, _)
tag_offsets(d, k) ==
    IF k > Len(OffsetAssignments) THEN d
    ELSE tag_offsets(
             loc_set(d, series_eq(Col(d, c_benchmark), OffsetAssignments[k][1]),
                     c_offset, Num(OffsetAssignments[k][2])),
             k + 1)

\* the literal 1.0 of the noise filter, in tenths
OneDotZero == 10

rw_offset_regrouped(d) ==
    [i \in DOMAIN d.data |->
        cell_plus(
            cell_mul(
                cell_sub(Col(d, c_sourcesize)[i],
                         cell_add(Col(d, c_offset)[i], Col(d, c_padding)[i])),
                8),
            16)]

\* ((df['sourcesize'] - df['offset'] + df['padding']) * 8) + 16
rw_offset(d) ==
    [i \in DOMAIN d.data |->
        cell_plus(
            cell_mul(
                cell_add(cell_sub(Col(d, c_sourcesize)[i], Col(d, c_offset)[i]),
                         Col(d, c_padding)[i]),
                8),
            16)]

assignment_statement(d, value) == value

\* An expression statement: the value of the expression is not bound to
\* anything, the working table stays the object it was.
expression_statement(d, value) == d

Init ==
    /\ pc = "read_csv"
    /\ input \in Tables
    /\ df = NoFrame
    /\ filter = <<>>
    /\ thrpt = NoFrame
    /\ clean = <<>>
    /\ throughput = <<>>
    /\ aliases = <<>>
    /\ files = {}
    /\ name = <<>>
    /\ renamed = <<>>

\* line 13
ReadCsv ==
    /\ pc = "read_csv"
    /\ df' = read_csv(input)
    /\ pc' = "rename"
    /\ UNCHANGED <<input, filter, thrpt, clean, throughput, aliases, files, name, renamed>>

\* lines 14-15
RenameAndDrop ==
    /\ pc = "rename"
    /\ df' = drop(rename(df), <<c_mode, c_threads, c_samples, c_unit>>)
    /\ pc' = "tag"
    /\ UNCHANGED <<input, filter, thrpt, clean, throughput, aliases, files, name, renamed>>

\* lines 16-25
TagOffsets ==
    /\ pc = "tag"
    /\ df' = tag_offsets(df, 1)
    /\ pc' = "suppress"
    /\ UNCHANGED <<input, filter, thrpt, clean, throughput, aliases, files, name, renamed>>

SuppressErrorExactName ==
    /\ pc = "suppress"
    /\ df' = loc_set(df, series_eq(Col(df, c_benchmark), AliasMarker), c_error, Num(0))
    /\ pc' = "filter"
    /\ UNCHANGED <<input, filter, thrpt, clean, throughput, aliases, files, name, renamed>>

\* line 26
SuppressError ==
    /\ pc = "suppress"
    /\ df' = loc_set(df, str_contains(Col(df, c_benchmark), AliasMarker), c_error, Num(0))
    /\ pc' = "filter"
    /\ UNCHANGED <<input, filter, thrpt, clean, throughput, aliases, files, name, renamed>>

\* line 27
Filter ==
    /\ pc = "filter"
    /\ filter' = str_contains(Col(df, c_benchmark), AliasMarker)
    /\ pc' = "rw"
    /\ UNCHANGED <<input, df, thrpt, clean, throughput, aliases, files, name, renamed>>

\* line 28
RwOffset ==
    /\ pc = "rw"
    /\ df' = set_item(df, c_rw, rw_offset(df))
    /\ pc' = "drop"
    /\ UNCHANGED <<input, filter, thrpt, clean, throughput, aliases, files, name, renamed>>

\* line 29
DropStatement ==
    /\ pc = "drop"
    /\ df' = expression_statement(df,
                 drop(df, <<c_offset, c_padding, c_targetsize, c_sourcesize>>))
    /\ pc' = "thrpt"
    /\ UNCHANGED <<input, filter, thrpt, clean, throughput, aliases, files, name, renamed>>

\* line 30
Thrpt ==
    /\ pc = "thrpt"
    /\ thrpt' = bool_index(df, invert(filter))
    /\ pc' = "clean"
    /\ UNCHANGED <<input, df, filter, clean, throughput, aliases, files, name, renamed>>

\* line 31
Clean ==
    /\ pc = "clean"
    /\ clean' = series_lt(Col(thrpt, c_error), OneDotZero)
    /\ pc' = "throughput"
    /\ UNCHANGED <<input, df, filter, thrpt, throughput, aliases, files, name, renamed>>

\* line 32
Throughput ==
    /\ pc = "throughput"
    /\ throughput' = pivot_table(bool_index(thrpt, clean), {c_score, c_error}, c_rw, c_benchmark)
    /\ pc' = "aliases"
    /\ UNCHANGED <<input, df, filter, thrpt, clean, aliases, files, name, renamed>>

\* line 33
Aliases ==
    /\ pc = "aliases"
    /\ aliases' = pivot_table(bool_index(df, filter), {c_score, c_error}, c_rw, c_benchmark)
    /\ pc' = "save_aliases"
    /\ UNCHANGED <<input, df, filter, thrpt, clean, throughput, files, name, renamed>>

\* lines 34-37: plotting a pivot that has no score column raises
SaveAliases ==
    /\ pc = "save_aliases"
    /\ IF DOMAIN aliases = {}
       THEN pc' = "raised" /\ files' = files
       ELSE pc' = "save_throughput" /\ files' = files \cup {aliases_png}
    /\ UNCHANGED <<input, df, filter, thrpt, clean, throughput, aliases, name, renamed>>

\* lines 39-42
SaveThroughput ==
    /\ pc = "save_throughput"
    /\ IF DOMAIN throughput = {}
       THEN pc' = "raised" /\ files' = files
       ELSE pc' = "done" /\ files' = files \cup {throughput_png}
    /\ UNCHANGED <<input, df, filter, thrpt, clean, throughput, aliases, name, renamed>>

Next ==
    \/ ReadCsv
    \/ RenameAndDrop
    \/ TagOffsets
    \/ SuppressError
    \/ Filter
    \/ RwOffset
    \/ DropStatement
    \/ Thrpt
    \/ Clean
    \/ Throughput
    \/ Aliases
    \/ SaveAliases
    \/ SaveThroughput

Spec == Init /\ [][Next]_vars

----------------------------------------------------------------------------
(* rename_columns applied to one label *)

InitRename ==
    /\ pc = "rename_columns"
    /\ name \in Labels
    /\ renamed = <<>>
    /\ input = [header |-> <<>>, rows |-> <<>>]
    /\ df = NoFrame
    /\ filter = <<>>
    /\ thrpt = NoFrame
    /\ clean = <<>>
    /\ throughput = <<>>
    /\ aliases = <<>>
    /\ files = {}

RenameColumn ==
    /\ pc = "rename_columns"
    /\ renamed' = rename_columns(name)
    /\ pc' = "returned"
    /\ UNCHANGED <<input, df, filter, thrpt, clean, throughput, aliases, files, name>>

NextRename == RenameColumn

SpecRename == InitRename /\ [][NextRename]_vars

----------------------------------------------------------------------------
(* Vocabulary of the properties *)

PcOrder ==
    <<"read_csv", "rename", "tag", "suppress", "filter", "rw", "drop", "thrpt",
      "clean", "throughput", "aliases", "save_aliases", "save_throughput",
      "done", "raised">>
PcIndex(p) == CHOOSE k \in DOMAIN PcOrder : PcOrder[k] = p

\* plot has executed the step called step
Past(step) ==
    /\ \E k \in DOMAIN PcOrder : PcOrder[k] = pc
    /\ PcIndex(pc) > PcIndex(step)

\* The input row at position i has index label i - 1
RowIds == DOMAIN input.rows
InputName(i) == input.rows[i][1]
InputScore(i) == input.rows[i][5]
InputError(i) == input.rows[i][6]
InputPadding(i) == input.rows[i][8]
InputSourcesize(i) == input.rows[i][9]
InputTargetsize(i) == input.rows[i][10]

LiteralAt(s, sub, i) ==
    /\ i + Len(sub) - 1 <= Len(s)
    /\ SubSeq(s, i, i + Len(sub) - 1) = sub
Occurrences(s, sub) == {i \in 1..Len(s) : LiteralAt(s, sub, i)}
ContainsLiteral(s, sub) == Occurrences(s, sub) # {}

\* The offset table of the ten names
OffsetOf(b) ==
    CASE b \in {NoOffset, Alias(NoOffset), ConstantOffset0, Alias(ConstantOffset0)} -> 0
      [] b \in {ConstantOffset256, Alias(ConstantOffset256)} -> 256
      [] b \in {ConstantOffset512, Alias(ConstantOffset512)} -> 512
      [] b \in {ConstantOffset768, Alias(ConstantOffset768)} -> 768

\* The row with index label l is aggregated into some cell of the pivot
InPivot(pivot, l) == \E k \in DOMAIN pivot : l \in pivot[k].rows

Range(s) == {s[k] : k \in DOMAIN s}

----------------------------------------------------------------------------
(* Properties *)

\* C1: after the offset tagging, every row whose benchmark name is one of the
\* ten names has the offset of the table (0, 0, 256, 512, 768, the same for
\* the alias-suffixed names), whatever its other columns hold.
C1_TaggedOffsets ==
    Past("tag") =>
        \A i \in RowIds :
            InputName(i) \in TaggedNames =>
                Col(df, c_offset)[i] = Num(OffsetOf(InputName(i)))

C1_Witness ==
    /\ pc = "suppress"
    /\ \E i \in RowIds :
        /\ InputName(i) = Alias(ConstantOffset512)
        /\ InputSourcesize(i) = NaN
        /\ Col(df, c_offset)[i] = Num(512)

\* C2: for every row with a defined offset, r/w offset is
\* (sourcesize - offset + padding) * 8 + 16 of the row's own sourcesize,
\* offset and padding (missing when sourcesize or padding is missing),
\* negative values included: sourcesize 100, padding 4, offset 256 give -1200.
C2_RwOffsetFormula ==
    Past("rw") =>
        \A i \in RowIds :
            ~Col(df, c_offset)[i].nan =>
                /\ Col(df, c_rw)[i] =
                       IF InputSourcesize(i).nan \/ InputPadding(i).nan THEN NaN
                       ELSE Num((InputSourcesize(i).v - Col(df, c_offset)[i].v
                                 + InputPadding(i).v) * 8 + 16)
                /\ ( /\ InputSourcesize(i) = Num(100)
                     /\ InputPadding(i) = Num(4)
                     /\ Col(df, c_offset)[i] = Num(256) ) =>
                       Col(df, c_rw)[i] = Num(-1200)

C2_Witness ==
    /\ pc = "drop"
    /\ \E i, j \in RowIds :
        /\ InputSourcesize(i) = Num(100)
        /\ InputPadding(i) = Num(4)
        /\ InputTargetsize(i) = Num(16)
        /\ Col(df, c_offset)[i] = Num(256)
        /\ Col(df, c_rw)[i] = Num(-1200)
        /\ InputTargetsize(j) = Num(8)
        /\ Col(df, c_offset)[j] = Num(256)
        /\ Col(df, c_rw)[j] = Num(-1200)

\* C2 as stated: the same, with the value -1232 for sourcesize 100,
\* padding 4, offset 256.
C2_AsStated ==
    Past("rw") =>
        \A i \in RowIds :
            ~Col(df, c_offset)[i].nan =>
                /\ Col(df, c_rw)[i] =
                       IF InputSourcesize(i).nan \/ InputPadding(i).nan THEN NaN
                       ELSE Num((InputSourcesize(i).v - Col(df, c_offset)[i].v
                                 + InputPadding(i).v) * 8 + 16)
                /\ ( /\ InputSourcesize(i) = Num(100)
                     /\ InputPadding(i) = Num(4)
                     /\ Col(df, c_offset)[i] = Num(256) ) =>
                       Col(df, c_rw)[i] = Num(-1232)

\* C3: a row whose benchmark name contains the alias marker has error 0 in
\* the table from the suppression on, the aliases pivot aggregates it with
\* error 0, and the throughput pivot does not hold it, whatever error the
\* input carried.
C3_AliasErrorZero ==
    \A i \in RowIds :
        ContainsLiteral(InputName(i), AliasMarker) =>
            /\ Past("suppress") => Col(df, c_error)[i] = Num(0)
            /\ Past("throughput") => ~InPivot(throughput, i - 1)
            /\ Past("aliases") =>
                   \A k \in DOMAIN aliases :
                       (i - 1) \in aliases[k].rows =>
                           aliases[k].cells[c_error] =
                               [sum |-> 0, n |-> Cardinality(aliases[k].rows)]

C3_Witness ==
    /\ Past("aliases")
    /\ \E i, j \in RowIds :
        /\ ContainsLiteral(InputName(i), AliasMarker)
        /\ InputError(i) = Num(10)
        /\ InPivot(aliases, i - 1)
        /\ ContainsLiteral(InputName(j), AliasMarker)
        /\ InputError(j) = Num(5)
        /\ InPivot(aliases, j - 1)

\* C4: every row aggregated into the throughput pivot has an input error that
\* is present and below 1.0.
C4_ThroughputBelowOne ==
    Past("throughput") =>
        \A k \in DOMAIN throughput :
            \A l \in throughput[k].rows :
                ~InputError(l + 1).nan /\ InputError(l + 1).v < 10

C4_Witness ==
    /\ Past("throughput")
    /\ DOMAIN throughput # {}
    /\ \E i \in RowIds :
        /\ InputName(i) \in PlainNames
        /\ InputError(i) = Num(10)
        /\ ~InputSourcesize(i).nan /\ ~InputPadding(i).nan
        /\ ~InPivot(throughput, i - 1)

\* C5: the rows handed to the aliases pivot are exactly the rows whose name
\* contains the marker as a literal substring, the rows handed to the
\* throughput pivot contain no marker, and no row is in both pivots.
C5_SplitByLiteralSubstring ==
    Past("aliases") =>
        \A i \in RowIds :
            /\ (i - 1) \in Range(bool_index(df, filter).index)
                   <=> ContainsLiteral(InputName(i), AliasMarker)
            /\ (i - 1) \in Range(bool_index(thrpt, clean).index)
                   => ~ContainsLiteral(InputName(i), AliasMarker)
            /\ ~(InPivot(throughput, i - 1) /\ InPivot(aliases, i - 1))

\* C6: a row whose name is none of the ten keeps a missing offset, has a
\* missing r/w offset, and is aggregated into neither pivot.
C6_UntaggedExcluded ==
    \A i \in RowIds :
        InputName(i) \notin TaggedNames =>
            /\ Past("tag") => Col(df, c_offset)[i] = NaN
            /\ Past("rw") => Col(df, c_rw)[i] = NaN
            /\ Past("throughput") => ~InPivot(throughput, i - 1)
            /\ Past("aliases") => ~InPivot(aliases, i - 1)

C6_Witness ==
    /\ pc = "save_aliases"
    /\ \E i, j \in RowIds :
        /\ InputName(i) \notin TaggedNames
        /\ \E b \in TaggedNames : StartsWith(InputName(i), b)
        /\ ~InputSourcesize(i).nan /\ ~InputPadding(i).nan
        /\ InputError(i) = Num(5)
        /\ Col(df, c_offset)[i] = NaN
        /\ Col(df, c_rw)[i] = NaN
        /\ ~InPivot(throughput, i - 1)
        /\ ~InPivot(aliases, i - 1)
        /\ InPivot(throughput, j - 1) \/ InPivot(aliases, j - 1)

\* C8: a row with one of the five plain names, sourcesize and padding present
\* and input error below 1.0 is aggregated into the throughput cell at index
\* (sourcesize - offset + padding) * 8 + 16 and column its benchmark name;
\* 'intersectionWithConstantOffset256' with sourcesize 100, padding 4 and
\* error 0.5 is in the cell at r/w offset -1200.
C8_PlainRowIncluded ==
    Past("throughput") =>
        \A i \in RowIds :
            ( /\ InputName(i) \in PlainNames
              /\ ~InputSourcesize(i).nan /\ ~InputPadding(i).nan
              /\ ~InputError(i).nan /\ InputError(i).v < 10 ) =>
                LET k == <<(InputSourcesize(i).v - OffsetOf(InputName(i))
                            + InputPadding(i).v) * 8 + 16,
                           InputName(i)>>
                IN /\ k \in DOMAIN throughput
                   /\ (i - 1) \in throughput[k].rows
                   /\ ( /\ InputName(i) = ConstantOffset256
                        /\ InputSourcesize(i) = Num(100)
                        /\ InputPadding(i) = Num(4) ) => k[1] = -1200

C8_Witness ==
    /\ Past("throughput")
    /\ \E i \in RowIds :
        /\ InputName(i) = ConstantOffset256
        /\ InputSourcesize(i) = Num(100)
        /\ InputPadding(i) = Num(4)
        /\ InputError(i) = Num(5)
        /\ InputScore(i) = NaN
        /\ <<-1200, ConstantOffset256>> \in DOMAIN throughput
        /\ (i - 1) \in throughput[<<-1200, ConstantOffset256>>].rows

\* C8 as stated: the same, with the example row in the cell at r/w offset
\* -1232.
C8_AsStated ==
    Past("throughput") =>
        \A i \in RowIds :
            ( /\ InputName(i) \in PlainNames
              /\ ~InputSourcesize(i).nan /\ ~InputPadding(i).nan
              /\ ~InputError(i).nan /\ InputError(i).v < 10 ) =>
                LET k == <<(InputSourcesize(i).v - OffsetOf(InputName(i))
                            + InputPadding(i).v) * 8 + 16,
                           InputName(i)>>
                IN /\ k \in DOMAIN throughput
                   /\ (i - 1) \in throughput[k].rows
                   /\ ( /\ InputName(i) = ConstantOffset256
                        /\ InputSourcesize(i) = Num(100)
                        /\ InputPadding(i) = Num(4) ) =>
                          /\ <<-1232, ConstantOffset256>> \in DOMAIN throughput
                          /\ (i - 1) \in throughput[<<-1232, ConstantOffset256>>].rows

\* C10: the column-drop statement leaves the working table as it was, the
\* columns offset, padding, targetsize and sourcesize still in it.
C10_DropLeavesTable ==
    [][pc = "drop" =>
          /\ df' = df
          /\ \A c \in {c_offset, c_padding, c_targetsize, c_sourcesize} :
                 HasColumn(df', c)]_vars

C10_Witness ==
    /\ pc = "save_aliases"
    /\ DOMAIN aliases # {}
    /\ \A c \in {c_offset, c_padding, c_targetsize, c_sourcesize} :
           HasColumn(df, c) /\ HasColumn(thrpt, c)
    /\ \E i \in RowIds :
        /\ Col(df, c_offset)[i] = Num(768)
        /\ Col(df, c_padding)[i] = InputPadding(i)
        /\ Col(df, c_sourcesize)[i] = InputSourcesize(i)
        /\ Col(df, c_targetsize)[i] = InputTargetsize(i)
        /\ InputTargetsize(i) = Num(16)

\* The occurrences of sub in s that a scan from the left takes: no two of
\* them overlap, and an occurrence not taken overlaps one taken to its left.
TakenOccurrences(s, sub) ==
    CHOOSE T \in SUBSET Occurrences(s, sub) :
        /\ \A a, b \in T : a < b => a + Len(sub) <= b
        /\ \A i \in Occurrences(s, sub) \ T :
               \E j \in T : j < i /\ i < j + Len(sub)

\* s without the characters of the taken occurrences of sub
WithoutOccurrences(s, sub) ==
    LET T == TakenOccurrences(s, sub)
    IN Compress(s, [p \in DOMAIN s |->
                       ~\E j \in T : j <= p /\ p < j + Len(sub)])

\* s without sub at its start, when it starts with sub
WithoutPrefix(s, sub) ==
    IF LiteralAt(s, sub, 1) THEN SubSeq(s, Len(sub) + 1, Len(s)) ELSE s

\* C7: rename_columns maps 'Score Error (99.9%)' to 'error' and every other
\* label to its lowercased form with every occurrence of 'param: ' taken out,
\* wherever in the label it stands; a label without that text is only
\* lowercased.
C7_RenameRemovesEveryParam ==
    pc = "returned" =>
        /\ name = ScoreError => renamed = c_error
        /\ name # ScoreError =>
               renamed = WithoutOccurrences(str_lower(name), ParamPrefix)
        /\ (name # ScoreError /\ ~ContainsLiteral(str_lower(name), ParamPrefix)) =>
               renamed = str_lower(name)

C7_Witness ==
    /\ pc = "returned"
    /\ name # ScoreError
    /\ LiteralAt(name, ScoreError, 1)
    /\ ~LiteralAt(str_lower(name), ParamPrefix, 1)
    /\ ContainsLiteral(name, ParamPrefix)
    /\ ~ContainsLiteral(renamed, ParamPrefix)
    /\ renamed # str_lower(name)

\* C7 as stated: every label but 'Score Error (99.9%)' maps to its lowercased
\* form with 'param: ' taken off its start only.
C7_AsStated ==
    pc = "returned" =>
        /\ name = ScoreError => renamed = c_error
        /\ name # ScoreError =>
               renamed = WithoutPrefix(str_lower(name), ParamPrefix)

====
